---- MODULE Spec2Model ----
(***************************************************************************)
(* searxng-simple-mcp: the web_search tool (server.py) and the SearxNG     *)
(* client it calls (searxng_client.py).                                    *)
(*                                                                         *)
(* Each tool invocation is a coroutine.  Its position is pc[i]; its local  *)
(* variables are args, response, results and the exception in flight       *)
(* (error).  The coroutine is suspended at every await (ctx.info and       *)
(* client.get), so the steps of different invocations interleave there.    *)
(* The upstream SearxNG instance and the host's notification channel are   *)
(* the environment: the upstream answers each request with any reply it    *)
(* can give, ctx.info records the notice.                                  *)
(*                                                                         *)
(* Strings are TLA+ strings; an optional value (None or a value) is the    *)
(* empty tuple or a one-element tuple.  JSON values of the upstream body   *)
(* always have the type the schema declares; what varies is which keys are *)
(* present.                                                                *)
(***************************************************************************)
EXTENDS Integers, Sequences, FiniteSets, TLC

VARIABLES client, pc, args, notices, requests, reply, response, results, error, ret

vars == <<client, pc, args, notices, requests, reply, response, results, error, ret>>

(***************************************************************************)
(* Bounds of the model.                                                    *)
(***************************************************************************)
NumInv == 2

MaxCount == 2

MaxResults == 2

(* content[:200] *)
ContentLimit == 200

Inv == 1..NumInv

Min(a, b) == IF a <= b THEN a ELSE b

Max(a, b) == IF a >= b THEN a ELSE b

(***************************************************************************)
(* Python helpers.                                                         *)
(***************************************************************************)
None == <<>>

Some(v) == <<v>>

(* Truthiness of an optional str or an optional list: None, "" and [] are  *)
(* falsy.                                                                  *)
Truthy(opt) == opt # None /\ Len(opt[1]) > 0

(* s[:n] for a str or a list, with Python's clamping and negative index.   *)
PySliceTo(s, n) ==
    IF n >= 0 THEN SubSeq(s, 1, Min(n, Len(s)))
    ELSE SubSeq(s, 1, Max(0, Len(s) + n))

RECURSIVE Join(_, _)
(* sep.join(parts) *)
Join(parts, sep) ==
    IF Len(parts) = 0 THEN ""
    ELSE IF Len(parts) = 1 THEN parts[1]
    ELSE parts[1] \o sep \o Join(Tail(parts), sep)

RECURSIVE RStripSlash(_)
(* s.rstrip("/") *)
RStripSlash(s) ==
    IF Len(s) > 0 /\ SubSeq(s, Len(s), Len(s)) = "/"
    THEN RStripSlash(SubSeq(s, 1, Len(s) - 1))
    ELSE s

RECURSIVE Repeat(_, _)
(* c * n, by halving.                                                      *)
Repeat(c, n) ==
    IF n <= 0 THEN ""
    ELSE IF n = 1 THEN c
    ELSE LET half == Repeat(c, n \div 2)
         IN  half \o half \o (IF n % 2 = 1 THEN c ELSE "")

(***************************************************************************)
(* The schema: SearxngResult and SearxngResponse.                          *)
(***************************************************************************)
(* Fields declared with Field(...): required.  Keys are the aliases.       *)
RequiredFields ==
    {"url", "title", "content", "engine", "template", "parsed_url", "img_src",
     "priority", "engines", "positions", "score", "category"}

(* Fields declared with Field(None, ...): optional, default None.          *)
OptionalFields == {"thumbnail", "publishedDate"}

ResponseFields == {"query", "number_of_results", "results"}

ResultValid(raw) == RequiredFields \subseteq DOMAIN raw

(* The SearxngResult built from a raw object that validates.               *)
ParseResult(raw) ==
    [url |-> raw.url, title |-> raw.title, content |-> raw.content,
     thumbnail |-> IF "thumbnail" \in DOMAIN raw THEN raw.thumbnail ELSE None,
     engine |-> raw.engine, template |-> raw.template,
     parsed_url |-> raw.parsed_url, img_src |-> raw.img_src,
     priority |-> raw.priority, engines |-> raw.engines,
     positions |-> raw.positions, score |-> raw.score,
     category |-> raw.category,
     published_date |->
        IF "publishedDate" \in DOMAIN raw THEN raw.publishedDate ELSE None]

(* Does the body validate as a SearxngResponse: every required key of the  *)
(* body and of every result is present.                                    *)
ResponseValid(body) ==
    /\ ResponseFields \subseteq DOMAIN body
    /\ \A k \in 1..Len(body.results) : ResultValid(body.results[k])

(* The SearxngResponse built from a body that validates: results in        *)
(* upstream order.                                                         *)
ParseResponse(body) ==
    [query |-> body.query, number_of_results |-> body.number_of_results,
     results |-> [k \in 1..Len(body.results) |-> ParseResult(body.results[k])]]

(***************************************************************************)
(* The environment's inputs: upstream bodies and replies, tool arguments.  *)
(***************************************************************************)
Drop(r, f) == [k \in DOMAIN r \ {f} |-> r[k]]

LongContent == Repeat("x", ContentLimit + 50)

DocA ==
    [url |-> "http://a", title |-> "Cat facts", content |-> LongContent,
     thumbnail |-> Some("http://a/t.png"), engine |-> "google",
     template |-> "default.html", parsed_url |-> <<"http", "a", "">>,
     img_src |-> "", priority |-> "", engines |-> <<"google">>,
     positions |-> <<1>>, score |-> 3, category |-> "general",
     publishedDate |-> Some("2024-01-01")]

DocB ==
    [url |-> "http://b", title |-> "Cat pics", content |-> "short",
     engine |-> "bing", template |-> "images.html",
     parsed_url |-> <<"http", "b", "">>, img_src |-> "http://b/i.png",
     priority |-> "", engines |-> <<"bing", "google">>,
     positions |-> <<2, 1>>, score |-> 1, category |-> "images"]

Docs == {DocA, DocB}

(* Result lists whose every entry conforms to the schema.                  *)
ValidLists == UNION {[1..n -> Docs] : n \in 0..MaxResults}

(* The same lists with one key removed from one entry.                     *)
DroppedLists ==
    {[rs EXCEPT ![k] = Drop(rs[k], f)] :
        <<rs, k, f>> \in {t \in ValidLists \X (1..MaxResults)
                                \X (RequiredFields \cup OptionalFields) :
                            t[2] <= Len(t[1])}}

MakeBody(nr, rs) == [query |-> "cats", number_of_results |-> nr, results |-> rs]

EmptyBody == MakeBody(0, <<>>)

Bodies ==
    {MakeBody(nr, rs) : nr \in {0, 5}, rs \in ValidLists}
    \cup {MakeBody(5, rs) : rs \in DroppedLists}
    \cup {Drop(MakeBody(1, <<DocB>>), f) : f \in ResponseFields}

HttpReply(status, json, body) ==
    [kind |-> "http", status |-> status, json |-> json, body |-> body]

NoReply == [kind |-> "none", status |-> 0, json |-> FALSE, body |-> EmptyBody]

FailingReplies ==
    {[kind |-> "timeout", status |-> 0, json |-> FALSE, body |-> EmptyBody],
     [kind |-> "connect", status |-> 0, json |-> FALSE, body |-> EmptyBody],
     HttpReply(404, FALSE, EmptyBody),
     HttpReply(500, TRUE, MakeBody(5, <<DocA>>)),
     HttpReply(200, FALSE, EmptyBody)}

(* What the upstream can answer to one request.                            *)
Replies == FailingReplies \cup {HttpReply(200, TRUE, b) : b \in Bodies}

ConcReplies ==
    {[kind |-> "timeout", status |-> 0, json |-> FALSE, body |-> EmptyBody],
     HttpReply(200, TRUE, MakeBody(5, <<DocA, DocB>>)),
     HttpReply(200, TRUE, MakeBody(5, <<DocB, Drop(DocA, "engine")>>))}

TimeRanges == {"day", "week", "month", "year"}

MakeArgs(q, n, cats, lang, tr, fmt, ctx) ==
    [query |-> q, result_count |-> n, categories |-> cats, language |-> lang,
     time_range |-> tr, result_format |-> fmt, ctx |-> ctx]

NoArgs == MakeArgs("", 0, None, None, None, "text", FALSE)

(* The arguments of a tool call as they reach the body of web_search.      *)
ArgSpace ==
    {MakeArgs("cats", n, cats, lang, tr, fmt, ctx) :
        n \in (0 - 1)..MaxCount,
        cats \in {None, Some(<<>>), Some(<<"general", "news">>)},
        lang \in {None, Some("en")},
        tr \in {None} \cup {Some(t) : t \in TimeRanges \cup {"decade"}},
        fmt \in {"text", "json"},
        ctx \in BOOLEAN}

ConcArgs ==
    {MakeArgs(q, n, None, Some("en"), tr, fmt, TRUE) :
        q \in {"cats"}, n \in {1, 2}, tr \in {None, Some("day")},
        fmt \in {"text", "json"}}

(***************************************************************************)
(* SearxNGClient.                                                          *)
(***************************************************************************)
(* Settings().searxng_url and Settings().timeout as the process may be     *)
(* configured.                                                             *)
SettingsUrls == {"http://searx:8080", "http://searx:8080/"}

SettingsTimeouts == {10}

(* SearxNGClient(base_url, timeout) *)
NewClient(base_url, timeout) ==
    [base_url |-> RStripSlash(base_url), timeout |-> timeout]

(* The params dict of search, in insertion order, as key/value pairs.      *)
SearchParams(query, categories, language, time_range) ==
    << <<"q", query>>, <<"format", "json">> >>
    \o (IF Truthy(categories)
        THEN << <<"categories", Join(categories[1], ",")>> >> ELSE <<>>)
    \o (IF Truthy(time_range)
        THEN << <<"time_range", time_range[1]>> >> ELSE <<>>)
    \o (IF Truthy(language)
        THEN << <<"language", language[1]>> >> ELSE <<>>)

(* client.get(f"{self.base_url}/search", params=params, timeout=...)       *)
SearchRequest(c, query, categories, language, time_range) ==
    [method |-> "GET", url |-> c.base_url \o "/search",
     params |-> SearchParams(query, categories, language, time_range),
     timeout |-> c.timeout]

MakeError(type, msg, cause) == [type |-> type, msg |-> msg, cause |-> cause]

NoError == MakeError("None", "", "None")

(* response.raise_for_status() passes *)
IsSuccess(status) == status \in 200..299

(* The exception raised inside the try block of search for reply r, or     *)
(* "None": client.get raises, then raise_for_status, then response.json(), *)
(* then the schema validation.                                             *)
SearchCause(r) ==
    IF r.kind = "timeout" THEN "TimeoutException"
    ELSE IF r.kind = "connect" THEN "ConnectError"
    ELSE IF ~IsSuccess(r.status) THEN "HTTPStatusError"
    ELSE IF ~r.json THEN "JSONDecodeError"
    ELSE IF ~ResponseValid(r.body) THEN "ValidationError"
    ELSE "None"

(* Variant of SearchReceive: a lenient parser that keeps the results that  *)
(* validate and skips the others.                                          *)
SearchReceive_lenient(r) ==
    IF SearchCause(r) \in {"None", "ValidationError"}
          /\ ResponseFields \subseteq DOMAIN r.body
    THEN [ok |-> TRUE,
          value |-> Some([query |-> r.body.query,
                          number_of_results |-> r.body.number_of_results,
                          results |-> [k \in 1..Len(SelectSeq(r.body.results, ResultValid))
                                         |-> ParseResult(SelectSeq(r.body.results,
                                                                   ResultValid)[k])]]),
          error |-> NoError]
    ELSE [ok |-> FALSE, value |-> None,
          error |-> MakeError("ValueError",
                              "Error during search: " \o SearchCause(r),
                              SearchCause(r))]

(* What search does with the reply r of its request: the SearxngResponse   *)
(* it returns, or the ValueError it raises from the cause.                 *)
SearchReceive(r) ==
    IF SearchCause(r) = "None"
    THEN [ok |-> TRUE, value |-> Some(ParseResponse(r.body)), error |-> NoError]
    ELSE [ok |-> FALSE, value |-> None,
          error |-> MakeError("ValueError",
                              "Error during search: " \o SearchCause(r),
                              SearchCause(r))]

(***************************************************************************)
(* web_search: rendering.                                                  *)
(***************************************************************************)
NoRet == [kind |-> "none", str |-> "", list |-> <<>>]

(* Variant of FormatEntry: the ellipsis only when the content was cut.     *)
FormatEntry_natural(i, result) ==
    ToString(i) \o ". [" \o result.title \o "](" \o result.url \o ")\n   "
    \o PySliceTo(result.content, ContentLimit)
    \o (IF Len(result.content) > ContentLimit THEN "..." ELSE "")

(* f"{i}. [{title}]({url})\n   {content}" with content[:200] + "..."       *)
FormatEntry(i, result) ==
    ToString(i) \o ". [" \o result.title \o "](" \o result.url \o ")\n   "
    \o PySliceTo(result.content, ContentLimit) \o "..."

(* The value web_search returns for the truncated results.                 *)
RenderResults(result_format, rs) ==
    IF result_format = "json"
    THEN [kind |-> "list", str |-> "", list |-> rs]
    ELSE [kind |-> "str",
          str |-> Join([k \in 1..Len(rs) |-> FormatEntry(k, rs[k])], "\n\n"),
          list |-> <<>>]

(***************************************************************************)
(* State.                                                                  *)
(***************************************************************************)
Init ==
    /\ client \in {NewClient(u, t) : u \in SettingsUrls, t \in SettingsTimeouts}
    /\ pc = [i \in Inv |-> "idle"]
    /\ args = [i \in Inv |-> NoArgs]
    /\ notices = [i \in Inv |-> <<>>]
    /\ requests = [i \in Inv |-> <<>>]
    /\ reply = [i \in Inv |-> NoReply]
    /\ response = [i \in Inv |-> None]
    /\ results = [i \in Inv |-> <<>>]
    /\ error = [i \in Inv |-> NoError]
    /\ ret = [i \in Inv |-> NoRet]

(* The host dispatches a tool call with arguments a.                       *)
Invoke(i, a) ==
    /\ pc[i] = "idle"
    /\ args' = [args EXCEPT ![i] = a]
    /\ pc' = [pc EXCEPT ![i] = "entered"]
    /\ UNCHANGED <<client, notices, requests, reply, response, results, error, ret>>

(* if ctx: await ctx.info("Starting web search...") *)
StartNotice(i) ==
    /\ pc[i] = "entered"
    /\ notices' = [notices EXCEPT ![i] =
                     IF args[i].ctx THEN Append(@, "Starting web search...") ELSE @]
    /\ pc' = [pc EXCEPT ![i] = "validate"]
    /\ UNCHANGED <<client, args, requests, reply, response, results, error, ret>>

(* Variant of ValidateInputs: the test is result_count < 0.                *)
ValidateInputs_negativeOnly(i) ==
    /\ pc[i] = "validate"
    /\ IF args[i].result_count < 0
       THEN /\ error' = [error EXCEPT ![i] =
                           MakeError("ValueError",
                                     "result_count must be greater than 0", "None")]
            /\ pc' = [pc EXCEPT ![i] = "except"]
       ELSE /\ pc' = [pc EXCEPT ![i] = "search"]
            /\ UNCHANGED error
    /\ UNCHANGED <<client, args, notices, requests, reply, response, results, ret>>

(* if result_count <= 0: raise ValueError(...) *)
ValidateInputs(i) ==
    /\ pc[i] = "validate"
    /\ IF args[i].result_count <= 0
       THEN /\ error' = [error EXCEPT ![i] =
                           MakeError("ValueError",
                                     "result_count must be greater than 0", "None")]
            /\ pc' = [pc EXCEPT ![i] = "except"]
       ELSE /\ pc' = [pc EXCEPT ![i] = "search"]
            /\ UNCHANGED error
    /\ UNCHANGED <<client, args, notices, requests, reply, response, results, ret>>

(* Variant of SendRequest: the caller's output format is sent upstream as  *)
(* the format parameter.                                                   *)
SendRequest_outputFormat(i) ==
    /\ pc[i] = "search"
    /\ LET req == SearchRequest(client, args[i].query, args[i].categories,
                                args[i].language, args[i].time_range)
       IN  requests' = [requests EXCEPT ![i] =
                Append(@, [req EXCEPT !.params[2] = <<"format", args[i].result_format>>])]
    /\ pc' = [pc EXCEPT ![i] = "awaiting"]
    /\ UNCHANGED <<client, args, notices, reply, response, results, error, ret>>

(* searxng_client.search(...) up to the await of client.get: the request   *)
(* goes out on a connection of its own.                                    *)
SendRequest(i) ==
    /\ pc[i] = "search"
    /\ requests' = [requests EXCEPT ![i] =
                      Append(@, SearchRequest(client, args[i].query,
                                              args[i].categories, args[i].language,
                                              args[i].time_range))]
    /\ pc' = [pc EXCEPT ![i] = "awaiting"]
    /\ UNCHANGED <<client, args, notices, reply, response, results, error, ret>>

(* The upstream (or the network) answers the request of invocation i.      *)
UpstreamReply(i, r) ==
    /\ pc[i] = "awaiting"
    /\ reply[i] = NoReply
    /\ reply' = [reply EXCEPT ![i] = r]
    /\ UNCHANGED <<client, pc, args, notices, requests, response, results, error, ret>>

(* Variant of ReceiveReply: a failed request is sent again.                *)
ReceiveReply_retry(i) ==
    /\ pc[i] = "awaiting"
    /\ reply[i] # NoReply
    /\ LET out == SearchReceive(reply[i])
       IN  IF out.ok
           THEN /\ response' = [response EXCEPT ![i] = out.value]
                /\ pc' = [pc EXCEPT ![i] = "render"]
                /\ UNCHANGED <<error, reply>>
           ELSE /\ reply' = [reply EXCEPT ![i] = NoReply]
                /\ pc' = [pc EXCEPT ![i] = "search"]
                /\ UNCHANGED <<response, error>>
    /\ UNCHANGED <<client, args, notices, requests, results, ret>>

(* Variant of ReceiveReply: the reply is read from a slot that all         *)
(* invocations share, so it may be the reply to another invocation.        *)
ReceiveReply_shared(i) ==
    /\ pc[i] = "awaiting"
    /\ \E j \in Inv :
        /\ reply[j] # NoReply
        /\ LET out == SearchReceive(reply[j])
           IN  IF out.ok
               THEN /\ response' = [response EXCEPT ![i] = out.value]
                    /\ pc' = [pc EXCEPT ![i] = "render"]
                    /\ UNCHANGED error
               ELSE /\ error' = [error EXCEPT ![i] = out.error]
                    /\ pc' = [pc EXCEPT ![i] = "except"]
                    /\ UNCHANGED response
    /\ UNCHANGED <<client, args, notices, requests, reply, results, ret>>

(* search resumes with the reply: returns the response to web_search or    *)
(* raises ValueError into its except block.                                *)
ReceiveReply(i) ==
    /\ pc[i] = "awaiting"
    /\ reply[i] # NoReply
    /\ LET out == SearchReceive(reply[i])
       IN  IF out.ok
           THEN /\ response' = [response EXCEPT ![i] = out.value]
                /\ pc' = [pc EXCEPT ![i] = "render"]
                /\ UNCHANGED error
           ELSE /\ error' = [error EXCEPT ![i] = out.error]
                /\ pc' = [pc EXCEPT ![i] = "except"]
                /\ UNCHANGED response
    /\ UNCHANGED <<client, args, notices, requests, reply, results, ret>>

(* Variant of Render: the truncation is also bounded by the upstream's     *)
(* number_of_results estimate.                                             *)
Render_byEstimate(i) ==
    /\ pc[i] = "render"
    /\ LET rs == PySliceTo(response[i][1].results,
                           Min(args[i].result_count,
                               response[i][1].number_of_results))
       IN  /\ results' = [results EXCEPT ![i] = rs]
           /\ ret' = [ret EXCEPT ![i] = RenderResults(args[i].result_format, rs)]
    /\ pc' = [pc EXCEPT ![i] = "returned"]
    /\ UNCHANGED <<client, args, notices, requests, reply, response, error>>

(* Variant of Render: a completion notice is sent on success.              *)
Render_notifies(i) ==
    /\ pc[i] = "render"
    /\ LET rs == PySliceTo(response[i][1].results, args[i].result_count)
       IN  /\ results' = [results EXCEPT ![i] = rs]
           /\ ret' = [ret EXCEPT ![i] = RenderResults(args[i].result_format, rs)]
    /\ notices' = [notices EXCEPT ![i] =
                     IF args[i].ctx THEN Append(@, "Search completed") ELSE @]
    /\ pc' = [pc EXCEPT ![i] = "returned"]
    /\ UNCHANGED <<client, args, requests, reply, response, error>>

(* results = response.results[:result_count], then the format branch and   *)
(* the return.                                                             *)
Render(i) ==
    /\ pc[i] = "render"
    /\ LET rs == PySliceTo(response[i][1].results, args[i].result_count)
       IN  /\ results' = [results EXCEPT ![i] = rs]
           /\ ret' = [ret EXCEPT ![i] = RenderResults(args[i].result_format, rs)]
    /\ pc' = [pc EXCEPT ![i] = "returned"]
    /\ UNCHANGED <<client, args, notices, requests, reply, response, error>>

(* Variant of ExceptHandler: the exception is swallowed and an empty       *)
(* result is returned in its place.                                        *)
ExceptHandler_swallow(i) ==
    /\ pc[i] = "except"
    /\ notices' = [notices EXCEPT ![i] =
                     IF args[i].ctx
                     THEN Append(@, "Error during search: " \o error[i].msg)
                     ELSE @]
    /\ ret' = [ret EXCEPT ![i] = RenderResults(args[i].result_format, <<>>)]
    /\ pc' = [pc EXCEPT ![i] = "returned"]
    /\ UNCHANGED <<client, args, requests, reply, response, results, error>>

(* except Exception as e: the error notice if ctx, then raise.             *)
ExceptHandler(i) ==
    /\ pc[i] = "except"
    /\ notices' = [notices EXCEPT ![i] =
                     IF args[i].ctx
                     THEN Append(@, "Error during search: " \o error[i].msg)
                     ELSE @]
    /\ pc' = [pc EXCEPT ![i] = "raised"]
    /\ UNCHANGED <<client, args, requests, reply, response, results, error, ret>>

(* One tool call at a time, every argument and every upstream reply.       *)
Next ==
    \E i \in {1} :
        \/ \E a \in ArgSpace : Invoke(i, a)
        \/ StartNotice(i)
        \/ ValidateInputs(i)
        \/ SendRequest(i)
        \/ \E r \in Replies : UpstreamReply(i, r)
        \/ ReceiveReply(i)
        \/ Render(i)
        \/ ExceptHandler(i)

Spec == Init /\ [][Next]_vars

(* Concurrent tool calls sharing the module-level client.                  *)
NextConc ==
    \E i \in Inv :
        \/ \E a \in ConcArgs : Invoke(i, a)
        \/ StartNotice(i)
        \/ ValidateInputs(i)
        \/ SendRequest(i)
        \/ \E r \in ConcReplies : UpstreamReply(i, r)
        \/ ReceiveReply(i)
        \/ Render(i)
        \/ ExceptHandler(i)

SpecConc == Init /\ [][NextConc]_vars

(***************************************************************************)
(* Properties.                                                             *)
(***************************************************************************)
(* The invocation has left the validation of its inputs behind.            *)
Validated(i) == pc[i] \in {"search", "awaiting", "render", "returned", "except", "raised"}

(* search has consumed the reply to its request.                           *)
Received(i) ==
    /\ pc[i] \in {"render", "returned", "except", "raised"}
    /\ reply[i] # NoReply

Failed(i) == pc[i] \in {"except", "raised"}

(* C1: a web_search invocation with result_count <= 0, in either format,   *)
(* ends in a failure (the ValueError of the validation); no upstream       *)
(* request is issued for it and it returns nothing: no empty list, no      *)
(* empty string, no result list.                                           *)
C1_NonPositiveCountRejected ==
    \A i \in Inv :
        (Validated(i) /\ args[i].result_count <= 0) =>
            /\ Failed(i)
            /\ requests[i] = <<>>
            /\ reply[i] = NoReply
            /\ response[i] = None
            /\ ret[i] = NoRet
            /\ error[i] = MakeError("ValueError",
                                    "result_count must be greater than 0", "None")

C1_Witness ==
    \E i \in Inv :
        /\ pc[i] = "raised"
        /\ args[i].result_count = 0
        /\ args[i].result_format = "json"
        /\ requests[i] = <<>>

(* C2: a successful web_search with result_count N > 0 on an upstream body *)
(* of L results selects exactly min(N, L) results, the first min(N, L)     *)
(* entries of the upstream sequence in upstream order (all L when N > L,   *)
(* no padding), whatever number_of_results says; in json format the        *)
(* selected records are the return value.                                  *)
C2_TruncationFirstMin ==
    \A i \in Inv :
        pc[i] = "returned" =>
            LET N == args[i].result_count
                up == reply[i].body.results
                keep == IF N <= Len(up) THEN N ELSE Len(up)
            IN  /\ N > 0
                /\ Len(results[i]) = keep
                /\ \A k \in 1..keep :
                      /\ results[i][k].url = up[k].url
                      /\ results[i][k].title = up[k].title
                      /\ results[i][k].content = up[k].content
                      /\ results[i][k].engine = up[k].engine
                /\ args[i].result_format = "json" =>
                      ret[i] = [kind |-> "list", str |-> "", list |-> results[i]]
                /\ args[i].result_format = "text" => ret[i].kind = "str"

C2_Witness ==
    \E i \in Inv :
        /\ pc[i] = "returned"
        /\ args[i].result_format = "json"
        /\ args[i].result_count = 1
        /\ Len(reply[i].body.results) = 2
        /\ reply[i].body.number_of_results = 0
        /\ Len(ret[i].list) = 1
        /\ ret[i].list[1].url = reply[i].body.results[1].url

C3_Required ==
    {"url", "title", "content", "engine", "template", "parsed_url", "img_src",
     "priority", "engines", "positions", "score", "category"}

(* A 2xx JSON body one of whose results, at any position, lacks a field    *)
(* other than thumbnail and published_date.                                *)
C3_Malformed(r) ==
    /\ r.kind = "http"
    /\ r.status >= 200 /\ r.status < 300
    /\ r.json
    /\ "results" \in DOMAIN r.body
    /\ \E k \in 1..Len(r.body.results) :
          \E f \in C3_Required : f \notin DOMAIN r.body.results[k]

(* C3: when any result of a 2xx body lacks a required field, search fails  *)
(* for the whole call: no response object, no selected results and no      *)
(* return value, neither the valid results before the malformed one nor a  *)
(* partial record.                                                         *)
C3_MalformedRejectsWhole ==
    \A i \in Inv :
        (Received(i) /\ C3_Malformed(reply[i])) =>
            /\ Failed(i)
            /\ response[i] = None
            /\ results[i] = <<>>
            /\ ret[i] = NoRet
            /\ error[i].type = "ValueError"
            /\ error[i].cause = "ValidationError"

C3_Witness ==
    \E i \in Inv :
        /\ pc[i] = "raised"
        /\ reply[i].kind = "http" /\ reply[i].status = 200 /\ reply[i].json
        /\ "results" \in DOMAIN reply[i].body
        /\ Len(reply[i].body.results) = 2
        /\ C3_Required \subseteq DOMAIN reply[i].body.results[1]
        /\ "engine" \notin DOMAIN reply[i].body.results[2]
        /\ ret[i] = NoRet

(* The cause of the four upstream failures, "None" for any other reply.    *)
C4_Cause(r) ==
    CASE r.kind = "timeout" -> "TimeoutException"
      [] r.kind = "connect" -> "ConnectError"
      [] r.kind = "http" /\ (r.status < 200 \/ r.status > 299) -> "HTTPStatusError"
      [] r.kind = "http" /\ r.status >= 200 /\ r.status <= 299 /\ ~r.json
            -> "JSONDecodeError"
      [] OTHER -> "None"

(* C4: when the upstream call ends in a timeout, a connection failure, a   *)
(* non-2xx status or a JSON-decode failure, search fails with the one      *)
(* unified kind (ValueError, "Error during search: ...") carrying the      *)
(* cause, and that failure is the invocation's outcome: web_search returns *)
(* nothing in its place.                                                   *)
C4_UpstreamFailureUnified ==
    \A i \in Inv :
        (Received(i) /\ C4_Cause(reply[i]) # "None") =>
            /\ Failed(i)
            /\ error[i] = MakeError("ValueError",
                                    "Error during search: " \o C4_Cause(reply[i]),
                                    C4_Cause(reply[i]))
            /\ response[i] = None
            /\ results[i] = <<>>
            /\ ret[i] = NoRet

C4_Witness ==
    \E i \in Inv :
        /\ pc[i] = "raised"
        /\ reply[i].kind = "http" /\ reply[i].status = 500
        /\ error[i].cause = "HTTPStatusError"
        /\ ret[i] = NoRet

(* C5: every call of search issues exactly one upstream GET and every      *)
(* invocation at most one: none before search is called, one from then on, *)
(* and no second one after the request failed.                             *)
C5_OneRequestNoRetry ==
    \A i \in Inv :
        /\ Len(requests[i]) <= 1
        /\ \A k \in 1..Len(requests[i]) : requests[i][k].method = "GET"
        /\ pc[i] \in {"idle", "entered", "validate", "search"} => requests[i] = <<>>
        /\ pc[i] \in {"awaiting", "render", "returned"} => Len(requests[i]) = 1
        /\ (Failed(i) /\ args[i].result_count > 0) => Len(requests[i]) = 1
        /\ (Failed(i) /\ args[i].result_count <= 0) => requests[i] = <<>>

C5_Witness ==
    \E i \in Inv :
        /\ pc[i] = "raised"
        /\ reply[i].kind = "timeout"
        /\ Len(requests[i]) = 1

(* C6: an invocation whose time_range is not one of day, week, month, year *)
(* fails before any upstream request is made, and the token is never       *)
(* forwarded upstream.                                                     *)
C6_UnrecognizedTimeRangeRejected ==
    \A i \in Inv :
        (Validated(i) /\ args[i].time_range # None
            /\ args[i].time_range[1] \notin {"day", "week", "month", "year"}) =>
            /\ requests[i] = <<>>
            /\ pc[i] \notin {"awaiting", "render", "returned"}

(* C7: with a notification channel, an invocation emits at most two        *)
(* notices; the first is "Starting web search...", emitted before the      *)
(* validation and before the upstream request; a second one, echoing the   *)
(* error, only when the invocation fails; a successful invocation emits    *)
(* the start notice and no other.                                          *)
C7_Notices ==
    \A i \in Inv :
        (pc[i] # "idle" /\ args[i].ctx) =>
            /\ Len(notices[i]) <= 2
            /\ pc[i] = "entered" =>
                  /\ notices[i] = <<>> /\ requests[i] = <<>> /\ error[i] = NoError
            /\ pc[i] # "entered" =>
                  /\ Len(notices[i]) >= 1
                  /\ notices[i][1] = "Starting web search..."
            /\ Len(notices[i]) = 2 =>
                  /\ pc[i] = "raised"
                  /\ notices[i][2] = "Error during search: " \o error[i].msg
            /\ pc[i] = "returned" => notices[i] = <<"Starting web search...">>

C7_Witness ==
    \E i \in Inv :
        /\ args[i].ctx
        /\ pc[i] = "raised"
        /\ reply[i].kind = "connect"
        /\ notices[i] = <<"Starting web search...",
                          "Error during search: Error during search: ConnectError">>

(* The entry of the result at 1-based position i: the line                 *)
(* "{i}. [{title}]({url})", then an indented line with the first 200       *)
(* characters of content and the suffix "...".                             *)
C8_Entry(i, r) ==
    ToString(i) \o ". [" \o r.title \o "](" \o r.url \o ")" \o "\n"
    \o "   " \o (IF Len(r.content) <= 200 THEN r.content ELSE SubSeq(r.content, 1, 200))
    \o "..."

RECURSIVE C8_Text(_, _)
(* The entries of the first n results, one blank line between two entries. *)
C8_Text(rs, n) ==
    IF n = 0 THEN ""
    ELSE IF n = 1 THEN C8_Entry(1, rs[1])
    ELSE C8_Text(rs, n - 1) \o "\n" \o "\n" \o C8_Entry(n, rs[n])

(* C8: in text format the output is one string: the entry of each selected *)
(* result in order, "..." appended also to a content shorter than 200      *)
(* characters, exactly one blank line between entries and nothing after    *)
(* the last entry.                                                         *)
C8_TextRendering ==
    \A i \in Inv :
        (pc[i] = "returned" /\ args[i].result_format = "text") =>
            /\ ret[i].kind = "str"
            /\ ret[i].str = C8_Text(results[i], Len(results[i]))
            /\ results[i] # <<>> =>
                  SubSeq(ret[i].str, Len(ret[i].str) - 2, Len(ret[i].str)) = "..."

C8_Witness ==
    \E i \in Inv :
        /\ pc[i] = "returned"
        /\ args[i].result_format = "text"
        /\ Len(results[i]) = 2
        /\ Len(results[i][1].content) > 200
        /\ Len(results[i][2].content) < 200
        /\ ret[i].str = "1. [Cat facts](http://a)\n   " \o SubSeq(LongContent, 1, 200)
                        \o "...\n\n2. [Cat pics](http://b)\n   short..."

(* The values the request parameters give to a key.                        *)
C9_Values(params, key) ==
    {params[k][2] : k \in {n \in 1..Len(params) : params[n][1] = key}}

(* C9: every upstream request carries format=json, and two invocations     *)
(* that differ only in result_format and result_count send identical       *)
(* upstream requests.                                                      *)
C9_RequestIndependentOfFormat ==
    /\ \A i \in Inv : \A k \in 1..Len(requests[i]) :
          C9_Values(requests[i][k].params, "format") = {"json"}
    /\ \A i, j \in Inv :
          (/\ requests[i] # <<>> /\ requests[j] # <<>>
           /\ args[i].query = args[j].query
           /\ args[i].categories = args[j].categories
           /\ args[i].language = args[j].language
           /\ args[i].time_range = args[j].time_range)
          => requests[i] = requests[j]

C9_Witness ==
    \E i, j \in Inv :
        /\ args[i].result_format = "text" /\ args[j].result_format = "json"
        /\ args[i].result_count # args[j].result_count
        /\ args[i].query = args[j].query
        /\ args[i].time_range = args[j].time_range
        /\ args[i].time_range = Some("day")
        /\ requests[i] # <<>>
        /\ requests[i] = requests[j]

(* The reply on the invocation's own connection lets search succeed.       *)
C10_OwnReplyGood(i) ==
    /\ reply[i].kind = "http"
    /\ IsSuccess(reply[i].status)
    /\ reply[i].json
    /\ ResponseValid(reply[i].body)

(* The outcome of every finished invocation is the one its own arguments   *)
(* and the reply to its own request give.                                  *)
C10_OwnOutcome ==
    /\ \A i \in Inv :
          /\ pc[i] = "returned" =>
                /\ args[i].result_count > 0
                /\ C10_OwnReplyGood(i)
                /\ response[i] = Some(ParseResponse(reply[i].body))
                /\ ret[i] = RenderResults(args[i].result_format,
                                          PySliceTo(response[i][1].results,
                                                    args[i].result_count))
          /\ pc[i] = "raised" =>
                /\ args[i].result_count <= 0 \/ reply[i] # NoReply
                /\ reply[i] # NoReply =>
                      /\ ~C10_OwnReplyGood(i)
                      /\ error[i] = SearchReceive(reply[i]).error
    /\ \A i, j \in Inv :
          (/\ pc[i] \in {"returned", "raised"} /\ pc[j] \in {"returned", "raised"}
           /\ args[i] = args[j] /\ reply[i] = reply[j])
          => /\ pc[i] = pc[j] /\ ret[i] = ret[j] /\ error[i] = error[j]
             /\ notices[i] = notices[j] /\ requests[i] = requests[j]

(* C10: concurrent invocations sharing the module-level client are         *)
(* independent: under every interleaving each invocation's outcome is      *)
(* determined by its own arguments and its own upstream reply, and the     *)
(* client's base URL and timeout never change after construction.          *)
C10_Independent == [](C10_OwnOutcome) /\ [][client' = client]_vars

C10_Witness ==
    \E i, j \in Inv :
        /\ i # j
        /\ pc[i] = "returned" /\ pc[j] = "raised"
        /\ args[i] = args[j]
        /\ reply[j].kind = "timeout"
        /\ Len(ret[i].list) = 2

====
